---- MODULE Spec2Model ----
(***************************************************************************)
(* Model of contrib/pg_misc_functions/pg_misc_functions.c.                 *)
(*                                                                         *)
(* One client session (a backend) calls the six SQL functions of the       *)
(* module while the other server processes start and exit on their own.    *)
(* pg_signal_backend_with_pid is modelled step by step (privilege check,   *)
(* BackendPidGetProc, AuxiliaryPidGetProc, kill) because the process table *)
(* can change between those steps; the other functions run to completion   *)
(* in one step.  ereport is modelled by its level: ERROR aborts the        *)
(* statement, WARNING returns, FATAL ends the session, PANIC takes down    *)
(* every server process.  The effect of a delivered signal on its          *)
(* recipient is the recipient's business and is not modelled; deliveries   *)
(* are recorded.                                                           *)
(***************************************************************************)
EXTENDS Integers, Sequences, FiniteSets

\* ---- bounds ----
MaxPid == 4
MaxRows == 2
MaxTLI == 2

\* ---- well-known process ids ----
PostmasterPid == 2
\* pid of the backend that runs the calls
MyProcPid == PostmasterPid + 1

\* pids whose processes come and go; MyProcPid is the calling backend
ProcPids == MyProcPid..MaxPid
OtherPids == (MyProcPid + 1)..MaxPid
\* pid arguments a caller may pass: 0, 1 (init, never a server process), the
\* postmaster, every process slot and one pid that is never in use
PidArgs == 0..(MaxPid + 1)
\* signal arguments: the null signal, SIGTERM, and a number kill() rejects
SigArgs == {0, 15, 99}
\* timeline ids the shared state may hold: 0 (unset), small ones, a large one
TLIValues == (0..MaxTLI) \cup {2147483647}

VARIABLES
    superuser,          \* result of superuser() for the session's role
    haveSetsid,         \* build was configured with HAVE_SETSID
    pmGroupLeader,      \* postmaster leads a process group of its own
    procs,              \* process table: pid -> "free" | "backend" | "aux" | "other" | "foreign"
    pc,                 \* position of the session
    rowsLeft,           \* rows of the running result set still to process
    pid, signum,        \* arguments of the running pg_signal_backend_with_pid
    proc,               \* local PGPROC *proc of SignalBackend: "NULL" | "backend" | "aux"
    flushTLI, replayTLI, receiveTLI,   \* shared WAL state
    \* ---- what the call did (observations) ----
    act,                \* name of the last step taken
    outcome,            \* "none" | "returned" | "ERROR" | "FATAL" | "PANIC"
    errcode,            \* SQLSTATE condition of the raised error, "" if none
    ret,                \* "none" | "true" | "false" | "null" | "uint32"
    retval,             \* value of a uint32 result
    diags,              \* WARNING reports of the current call
    delivered,          \* signals that kill() delivered in the current call
    nBackendLookups, nAuxLookups,      \* registry lookups of the current call
    callerSuperuser,    \* what superuser() answered in the current call
    workerAtCall,       \* pid named a live backend when the call began
    sinceCall,          \* and that backend has not exited since
    resolvedAlive       \* the process found by the lookup has not exited

vars == <<superuser, haveSetsid, pmGroupLeader, procs, pc, rowsLeft, pid,
          signum, proc, flushTLI, replayTLI, receiveTLI, act, outcome,
          errcode, ret, retval, diags, delivered, nBackendLookups,
          nAuxLookups, callerSuperuser, workerAtCall, sinceCall, resolvedAlive>>

walVars == <<flushTLI, replayTLI, receiveTLI>>
envVars == <<haveSetsid, pmGroupLeader>>
argVars == <<pid, signum, proc>>
obsVars == <<outcome, errcode, ret, retval, diags, delivered, nBackendLookups,
             nAuxLookups, callerSuperuser, workerAtCall, sinceCall, resolvedAlive>>

Kinds == {"free", "backend", "aux", "other", "foreign"}

\* ---- registry lookups ----
BackendPidGetProc_miss(p) == "NULL"

BackendPidGetProc(p) ==
    IF p \in ProcPids /\ procs[p] = "backend" THEN "backend" ELSE "NULL"

AuxiliaryPidGetProc(p) ==
    IF p \in ProcPids /\ procs[p] = "aux" THEN "aux" ELSE "NULL"

\* ---- kill(2) ----
\* arg < 0 addresses the process group -arg, arg > 0 the process arg; the
\* result is the errno, "" on success.  SignalBackend reaches kill() only with
\* the postmaster's pid or a pid it found in a registry.
KillTarget(arg) == IF arg < 0 THEN -arg ELSE arg

KillExists(arg) ==
    LET t == KillTarget(arg)
    IN  IF t = PostmasterPid THEN (arg > 0 \/ pmGroupLeader)
        ELSE IF t \in ProcPids THEN procs[t] # "free"
        ELSE FALSE

KillPermitted(arg) ==
    LET t == KillTarget(arg)
    IN  IF t \in ProcPids THEN procs[t] # "foreign"
        ELSE TRUE

\* kill() as it would be if the process that was looked up stayed pinned
kill_pinned(arg, sig) ==
    IF ~(sig \in 0..64) THEN "EINVAL"
    ELSE IF KillTarget(arg) # PostmasterPid /\ ~resolvedAlive THEN "ESRCH"
    ELSE IF ~KillExists(arg) THEN "ESRCH"
    ELSE IF ~KillPermitted(arg) THEN "EPERM"
    ELSE ""

kill(arg, sig) ==
    IF ~(sig \in 0..64) THEN "EINVAL"
    ELSE IF ~KillExists(arg) THEN "ESRCH"
    ELSE IF ~KillPermitted(arg) THEN "EPERM"
    ELSE ""

\* the argument SignalBackend hands to kill()
KillArg(p) == IF haveSetsid THEN -p ELSE p

KindOf(p) ==
    IF p = PostmasterPid THEN "postmaster"
    ELSE IF p \in ProcPids THEN procs[p]
    ELSE "none"

Delivery(p, sig) ==
    [pid |-> p, signum |-> sig, group |-> haveSetsid, kind |-> KindOf(p),
     resolved |-> resolvedAlive, sinceCall |-> sinceCall]

\* ---- reports ----
NotServerProcess_nopid(p) ==
    [level |-> "WARNING", msg |-> "PID %d is not a PostgreSQL server process",
     pid |-> 0, signum |-> 0, errno |-> ""]

NotServerProcess(p) ==
    [level |-> "WARNING", msg |-> "PID %d is not a PostgreSQL server process",
     pid |-> p, signum |-> 0, errno |-> ""]

CouldNotSendSignal_noerrno(p, sig, e) ==
    [level |-> "WARNING", msg |-> "could not send signal %d to process %d: %m",
     pid |-> p, signum |-> sig, errno |-> ""]

CouldNotSendSignal(p, sig, e) ==
    [level |-> "WARNING", msg |-> "could not send signal %d to process %d: %m",
     pid |-> p, signum |-> sig, errno |-> e]

Init ==
    /\ superuser \in BOOLEAN
    /\ haveSetsid \in BOOLEAN
    /\ pmGroupLeader \in BOOLEAN
    /\ procs = [p \in ProcPids |-> IF p = MyProcPid THEN "backend" ELSE "free"]
    /\ pc = "idle"
    /\ rowsLeft = 0
    /\ pid = 0 /\ signum = 0 /\ proc = "NULL"
    /\ flushTLI = 0 /\ replayTLI = 0 /\ receiveTLI = 0
    /\ act = "init"
    /\ outcome = "none" /\ errcode = "" /\ ret = "none" /\ retval = 0
    /\ diags = <<>> /\ delivered = {}
    /\ nBackendLookups = 0 /\ nAuxLookups = 0
    /\ callerSuperuser = FALSE
    /\ workerAtCall = FALSE /\ sinceCall = FALSE /\ resolvedAlive = FALSE


\* ---- pieces shared by the steps ----
MustBeSuperuser_unchecked == FALSE

\* if (!superuser()) ...
MustBeSuperuser == ~superuser

SignalBackendEntry_nobypass(p) == "BackendPidGetProc"

\* if (pid == PostmasterPid) { do nothing } else { look the pid up }
SignalBackendEntry(p) ==
    IF p = PostmasterPid THEN "kill" ELSE "BackendPidGetProc"

\* a call begins: forget what the previous call did
BeginCall(p) ==
    /\ callerSuperuser' = superuser
    /\ workerAtCall' = (p \in ProcPids /\ procs[p] = "backend")
    /\ sinceCall' = (p \in ProcPids /\ procs[p] = "backend")
    /\ resolvedAlive' = FALSE
    /\ diags' = <<>>
    /\ delivered' = {}
    /\ nBackendLookups' = 0
    /\ nAuxLookups' = 0

\* ereport(ERROR, errcode(ERRCODE_INSUFFICIENT_PRIVILEGE)): the statement is
\* aborted, the session goes on
ereport_ERROR ==
    /\ outcome' = "ERROR"
    /\ errcode' = "insufficient_privilege"
    /\ ret' = "none"
    /\ pc' = "idle"
    /\ UNCHANGED <<procs, rowsLeft>>

\* PANIC reported at FATAL: only this backend goes
ereport_PANIC_self ==
    /\ outcome' = "PANIC"
    /\ errcode' = "internal_error"
    /\ ret' = "none"
    /\ pc' = "exited"
    /\ procs' = [procs EXCEPT ![MyProcPid] = "free"]
    /\ UNCHANGED rowsLeft

\* ereport(PANIC): the backend aborts and the postmaster takes every other
\* server process down with it
ereport_PANIC ==
    /\ outcome' = "PANIC"
    /\ errcode' = "internal_error"
    /\ ret' = "none"
    /\ pc' = "crashed"
    /\ procs' = [p \in ProcPids |->
                   IF procs[p] \in {"backend", "aux"} THEN "free" ELSE procs[p]]
    /\ UNCHANGED rowsLeft

\* FATAL that takes the other server processes along
ereport_FATAL_all ==
    /\ outcome' = "FATAL"
    /\ errcode' = "internal_error"
    /\ ret' = "none"
    /\ pc' = "exited"
    /\ procs' = [p \in ProcPids |->
                   IF procs[p] \in {"backend", "aux"} THEN "free" ELSE procs[p]]
    /\ UNCHANGED rowsLeft

\* ereport(FATAL): this backend exits, the others go on
ereport_FATAL ==
    /\ outcome' = "FATAL"
    /\ errcode' = "internal_error"
    /\ ret' = "none"
    /\ pc' = "exited"
    /\ procs' = [procs EXCEPT ![MyProcPid] = "free"]
    /\ UNCHANGED rowsLeft

TimelineResult_nonull(tli) == [ret |-> "uint32", val |-> tli]

\* if (tli == 0) PG_RETURN_NULL(); PG_RETURN_UINT32(tli);
TimelineResult(tli) ==
    IF tli = 0 THEN [ret |-> "null", val |-> 0] ELSE [ret |-> "uint32", val |-> tli]

\* a false result raised as an error instead of returned
ReturnBool_raise(b) ==
    IF b
    THEN /\ outcome' = "returned"
         /\ ret' = "true"
         /\ rowsLeft' = rowsLeft - 1
         /\ pc' = IF rowsLeft = 1 THEN "idle" ELSE "row"
    ELSE /\ outcome' = "ERROR"
         /\ ret' = "none"
         /\ rowsLeft' = rowsLeft
         /\ pc' = "idle"

\* PG_RETURN_BOOL(b) to the executor, which goes on with the next row
ReturnBool(b) ==
    /\ outcome' = "returned"
    /\ ret' = IF b THEN "true" ELSE "false"
    /\ rowsLeft' = rowsLeft - 1
    /\ pc' = IF rowsLeft = 1 THEN "idle" ELSE "row"

\* a new statement or session begins: the arguments, result and reports of
\* the previous statement are gone
NewStatement ==
    /\ pid' = 0 /\ signum' = 0 /\ proc' = "NULL"
    /\ outcome' = "none" /\ errcode' = "" /\ ret' = "none" /\ retval' = 0
    /\ diags' = <<>> /\ delivered' = {}
    /\ nBackendLookups' = 0 /\ nAuxLookups' = 0
    /\ callerSuperuser' = FALSE
    /\ workerAtCall' = FALSE /\ sinceCall' = FALSE /\ resolvedAlive' = FALSE

\* ---- the session ----
SetRole(b) ==
    /\ pc = "idle"
    /\ superuser # b
    /\ superuser' = b
    /\ act' = "SetRole"
    /\ NewStatement
    /\ UNCHANGED <<envVars, procs, pc, rowsLeft, walVars>>

\* a statement calling pg_signal_backend_with_pid once per row of n rows
BeginBatch(n) ==
    /\ pc = "idle"
    /\ rowsLeft' = n
    /\ pc' = "row"
    /\ act' = "BeginBatch"
    /\ NewStatement
    /\ UNCHANGED <<superuser, envVars, procs, walVars>>

pg_cause_panic ==
    /\ pc = "idle"
    /\ act' = "pg_cause_panic"
    /\ BeginCall(0)
    /\ IF MustBeSuperuser
       THEN ereport_ERROR
       ELSE ereport_PANIC
    /\ UNCHANGED <<superuser, envVars, argVars, walVars, retval>>

pg_cause_fatal ==
    /\ pc = "idle"
    /\ act' = "pg_cause_fatal"
    /\ BeginCall(0)
    /\ IF MustBeSuperuser
       THEN ereport_ERROR
       ELSE ereport_FATAL
    /\ UNCHANGED <<superuser, envVars, argVars, walVars, retval>>

pg_signal_backend_with_pid(p, s) ==
    /\ pc = "row"
    /\ act' = "pg_signal_backend_with_pid"
    /\ BeginCall(p)
    /\ pid' = p
    /\ signum' = s
    /\ proc' = "NULL"
    /\ IF MustBeSuperuser
       THEN ereport_ERROR
       ELSE \* SignalBackend(pid, signum) is entered
            /\ outcome' = "none"
            /\ errcode' = ""
            /\ ret' = "none"
            /\ pc' = SignalBackendEntry(p)
            /\ UNCHANGED <<procs, rowsLeft>>
    /\ UNCHANGED <<superuser, envVars, walVars, retval>>

SignalBackend_BackendPidGetProc ==
    /\ pc = "BackendPidGetProc"
    /\ act' = "BackendPidGetProc"
    /\ nBackendLookups' = nBackendLookups + 1
    /\ proc' = BackendPidGetProc(pid)
    /\ resolvedAlive' = (BackendPidGetProc(pid) # "NULL")
    /\ pc' = IF BackendPidGetProc(pid) = "NULL" THEN "AuxiliaryPidGetProc"
             ELSE "kill"
    /\ UNCHANGED <<superuser, envVars, procs, rowsLeft, pid, signum, walVars,
                   outcome, errcode, ret, retval, diags, delivered,
                   nAuxLookups, callerSuperuser, workerAtCall, sinceCall>>

SignalBackend_AuxiliaryPidGetProc ==
    /\ pc = "AuxiliaryPidGetProc"
    /\ act' = "AuxiliaryPidGetProc"
    /\ nAuxLookups' = nAuxLookups + 1
    /\ proc' = AuxiliaryPidGetProc(pid)
    /\ resolvedAlive' = (AuxiliaryPidGetProc(pid) # "NULL")
    /\ IF AuxiliaryPidGetProc(pid) = "NULL"
       THEN /\ diags' = Append(diags, NotServerProcess(pid))
            /\ ReturnBool(FALSE)
       ELSE /\ pc' = "kill"
            /\ UNCHANGED <<diags, outcome, ret, rowsLeft>>
    /\ UNCHANGED <<superuser, envVars, procs, pid, signum, walVars, errcode,
                   retval, delivered, nBackendLookups, callerSuperuser,
                   workerAtCall, sinceCall>>

SignalBackend_kill ==
    /\ pc = "kill"
    /\ act' = "kill"
    /\ LET e == kill(KillArg(pid), signum)
       IN  IF e # ""
           THEN /\ diags' = Append(diags, CouldNotSendSignal(pid, signum, e))
                /\ delivered' = delivered
                /\ ReturnBool(FALSE)
           ELSE /\ delivered' = IF signum = 0 THEN delivered
                                ELSE delivered \cup {Delivery(pid, signum)}
                /\ diags' = diags
                /\ ReturnBool(TRUE)
    /\ UNCHANGED <<superuser, envVars, procs, argVars, walVars, errcode,
                   retval, nBackendLookups, nAuxLookups, callerSuperuser,
                   workerAtCall, sinceCall, resolvedAlive>>

\* a client connects again after its backend exited
Connect ==
    /\ pc = "exited"
    /\ pc' = "idle"
    /\ procs' = [procs EXCEPT ![MyProcPid] = "backend"]
    /\ act' = "Connect"
    /\ NewStatement
    /\ UNCHANGED <<superuser, envVars, rowsLeft, walVars>>

\* the postmaster reinitialises after the crash and a client connects
Restart ==
    /\ pc = "crashed"
    /\ pc' = "idle"
    /\ procs' = [procs EXCEPT ![MyProcPid] = "backend"]
    /\ act' = "Restart"
    /\ NewStatement
    /\ UNCHANGED <<superuser, envVars, rowsLeft, walVars>>

\* ---- the other processes ----
ProcStart(p, k) ==
    /\ procs[p] = "free"
    /\ k \in {"backend", "aux"} => pc # "crashed"
    /\ procs' = [procs EXCEPT ![p] = k]
    /\ act' = "env"
    /\ UNCHANGED <<superuser, envVars, pc, rowsLeft, argVars, walVars, obsVars>>

ProcExit(p) ==
    /\ procs[p] # "free"
    /\ procs' = [procs EXCEPT ![p] = "free"]
    /\ sinceCall' = IF pc \in {"BackendPidGetProc", "AuxiliaryPidGetProc", "kill"}
                        /\ pid = p
                     THEN FALSE ELSE sinceCall
    /\ resolvedAlive' = IF pc = "kill" /\ pid = p THEN FALSE ELSE resolvedAlive
    /\ act' = "env"
    /\ UNCHANGED <<superuser, envVars, pc, rowsLeft, argVars, walVars, outcome,
                   errcode, ret, retval, diags, delivered, nBackendLookups,
                   nAuxLookups, callerSuperuser, workerAtCall>>

Next ==
    \/ \E b \in BOOLEAN : SetRole(b)
    \/ \E n \in 1..MaxRows : BeginBatch(n)
    \/ pg_cause_panic
    \/ pg_cause_fatal
    \/ \E p \in PidArgs, s \in SigArgs : pg_signal_backend_with_pid(p, s)
    \/ SignalBackend_BackendPidGetProc
    \/ SignalBackend_AuxiliaryPidGetProc
    \/ SignalBackend_kill
    \/ Connect
    \/ Restart
    \/ \E p \in OtherPids, k \in Kinds \ {"free"} : ProcStart(p, k)
    \/ \E p \in OtherPids : ProcExit(p)

Spec == Init /\ [][Next]_vars

\* ---- the timeline functions ----
\* one of the three functions reads tli from the shared state and returns
ReturnTimeline(name, tli) ==
    /\ pc = "idle"
    /\ act' = name
    /\ BeginCall(0)
    /\ outcome' = "returned"
    /\ errcode' = ""
    /\ ret' = TimelineResult(tli).ret
    /\ retval' = TimelineResult(tli).val
    /\ UNCHANGED <<superuser, envVars, procs, pc, rowsLeft, argVars, walVars>>

pg_current_wal_tli == ReturnTimeline("pg_current_wal_tli", flushTLI)

pg_last_wal_replay_tli == ReturnTimeline("pg_last_wal_replay_tli", replayTLI)

pg_last_wal_receive_tli == ReturnTimeline("pg_last_wal_receive_tli", receiveTLI)

\* the server moves to another timeline (startup, promotion, streaming)
SetFlushTLI(v) ==
    /\ flushTLI # v
    /\ flushTLI' = v
    /\ act' = "env"
    /\ UNCHANGED <<superuser, envVars, procs, pc, rowsLeft, argVars, replayTLI,
                   receiveTLI, obsVars>>

SetReplayTLI(v) ==
    /\ replayTLI # v
    /\ replayTLI' = v
    /\ act' = "env"
    /\ UNCHANGED <<superuser, envVars, procs, pc, rowsLeft, argVars, flushTLI,
                   receiveTLI, obsVars>>

SetReceiveTLI(v) ==
    /\ receiveTLI # v
    /\ receiveTLI' = v
    /\ act' = "env"
    /\ UNCHANGED <<superuser, envVars, procs, pc, rowsLeft, argVars, flushTLI,
                   replayTLI, obsVars>>

NextTLI ==
    \/ \E b \in BOOLEAN : SetRole(b)
    \/ pg_current_wal_tli
    \/ pg_last_wal_replay_tli
    \/ pg_last_wal_receive_tli
    \/ \E v \in TLIValues : SetFlushTLI(v)
    \/ \E v \in TLIValues : SetReplayTLI(v)
    \/ \E v \in TLIValues : SetReceiveTLI(v)

SpecTLI == Init /\ [][NextTLI]_vars


\* ======================= properties =======================
PrivilegedActs == {"pg_cause_panic", "pg_cause_fatal", "pg_signal_backend_with_pid"}
SignalActs == {"pg_signal_backend_with_pid", "BackendPidGetProc",
               "AuxiliaryPidGetProc", "kill"}
\* the step just taken is the call of a privileged function
PrivilegedCall == pc \in {"idle", "row"} /\ act' \in PrivilegedActs

\* C1: a caller who is not a superuser gets ERROR insufficient_privilege from
\* pg_cause_panic, pg_cause_fatal and pg_signal_backend_with_pid, and the call
\* does nothing else: no registry lookup, no signal, no warning, no process or
\* session ended.
C1_Step ==
    (PrivilegedCall /\ ~superuser) =>
        /\ outcome' = "ERROR"
        /\ errcode' = "insufficient_privilege"
        /\ ret' = "none"
        /\ pc' = "idle"
        /\ procs' = procs
        /\ nBackendLookups' = 0
        /\ nAuxLookups' = 0
        /\ delivered' = {}
        /\ diags' = <<>>

C1_Unprivileged == [][C1_Step]_vars

C1_Witness ==
    /\ act = "pg_signal_backend_with_pid"
    /\ ~callerSuperuser
    /\ pid = 1 /\ signum = 15
    /\ outcome = "ERROR"
    /\ \E p \in OtherPids : procs[p] = "backend"

\* C2: a superuser's call with a pid that is not the postmaster's and that
\* neither BackendPidGetProc nor AuxiliaryPidGetProc finds returns false with
\* exactly one WARNING naming the pid, no error and no signal sent.
C2_Step ==
    (/\ pc = "AuxiliaryPidGetProc"
     /\ act' = "AuxiliaryPidGetProc"
     /\ ~(pid \in ProcPids /\ procs[pid] = "aux")) =>
        /\ callerSuperuser /\ pid # PostmasterPid /\ proc = "NULL"
        /\ outcome' = "returned"
        /\ ret' = "false"
        /\ errcode' = ""
        /\ Len(diags') = 1
        /\ diags'[1].level = "WARNING"
        /\ diags'[1].msg = "PID %d is not a PostgreSQL server process"
        /\ diags'[1].pid = pid
        /\ delivered' = {}
        /\ nBackendLookups' = 1 /\ nAuxLookups' = 1

C2_NotFound == [][C2_Step]_vars

C2_Witness ==
    /\ act = "AuxiliaryPidGetProc"
    /\ pid = MaxPid + 1
    /\ signum = 15
    /\ ret = "false"
    /\ Len(diags) = 1

C4_Original ==
    (/\ act \in SignalActs /\ callerSuperuser /\ outcome = "returned"
     /\ workerAtCall /\ signum \in 1..64) =>
        /\ ret = "true"
        /\ \E d \in delivered : d.pid = pid /\ d.signum = signum /\ d.sinceCall

\* C4: a superuser's call naming a backend that is live when the call is made
\* and does not exit before kill() runs, with a real signal number (1..64),
\* returns true and that backend gets the signal.
C4_LiveWorker ==
    (/\ act \in SignalActs /\ callerSuperuser /\ outcome = "returned"
     /\ workerAtCall /\ sinceCall /\ signum \in 1..64) =>
        /\ ret = "true"
        /\ diags = <<>>
        /\ delivered = {[pid |-> pid, signum |-> signum, group |-> haveSetsid,
                         kind |-> "backend", resolved |-> TRUE,
                         sinceCall |-> TRUE]}

C4_Witness ==
    /\ act = "kill"
    /\ callerSuperuser
    /\ workerAtCall /\ sinceCall
    /\ pid \in OtherPids
    /\ signum = 15
    /\ ret = "true"


\* C5 as stated: a superuser's call with the postmaster's pid consults no
\* registry, reports no "not a server process" warning, goes straight to the
\* delivery of the signal to the postmaster's process group, and returns true
\* exactly when that delivery succeeds.
C5_Original ==
    (act \in SignalActs /\ callerSuperuser /\ pid = PostmasterPid) =>
        /\ nBackendLookups = 0 /\ nAuxLookups = 0
        /\ \A i \in 1..Len(diags) :
               diags[i].msg # "PID %d is not a PostgreSQL server process"
        /\ pc \in {"kill", "row", "idle"}
        /\ outcome = "returned" =>
               /\ act = "kill"
               /\ ret = "true" <=> diags = <<>>
               /\ \A d \in delivered : d.pid = PostmasterPid /\ d.group

\* C5: a superuser's call with the postmaster's pid consults no registry,
\* reports no "not a server process" warning and goes straight to kill(), which
\* addresses the postmaster's process group in a build with HAVE_SETSID and
\* the postmaster process alone in a build without; the call returns true
\* exactly when kill() succeeds.
C5_Postmaster ==
    (act \in SignalActs /\ callerSuperuser /\ pid = PostmasterPid) =>
        /\ nBackendLookups = 0 /\ nAuxLookups = 0
        /\ \A i \in 1..Len(diags) :
               diags[i].msg # "PID %d is not a PostgreSQL server process"
        /\ pc \in {"kill", "row", "idle"}
        /\ outcome = "none" => (act = "pg_signal_backend_with_pid" /\ pc = "kill")
        /\ outcome = "returned" =>
               /\ act = "kill"
               /\ ret = "true" <=>
                      (signum \in 0..64 /\ (haveSetsid => pmGroupLeader))
               /\ (ret = "true" /\ signum # 0) =>
                      delivered = {[pid |-> PostmasterPid, signum |-> signum,
                                    group |-> haveSetsid, kind |-> "postmaster",
                                    resolved |-> FALSE, sinceCall |-> FALSE]}
               /\ (ret = "true" /\ signum = 0) => delivered = {}
               /\ ret = "false" => (delivered = {} /\ Len(diags) = 1)

C5_Witness ==
    /\ act = "kill"
    /\ callerSuperuser
    /\ pid = PostmasterPid
    /\ signum = 15
    /\ ret = "true"
    /\ ~haveSetsid

\* C7: pg_cause_panic called by a superuser never returns to its caller, and
\* every backend and auxiliary process of the server is gone after it.
C7_Panic ==
    /\ (act = "pg_cause_panic" /\ callerSuperuser) =>
           /\ outcome = "PANIC"
           /\ ret = "none"
           /\ pc = "crashed"
    /\ pc = "crashed" => \A p \in ProcPids : procs[p] \notin {"backend", "aux"}

C7_Witness ==
    /\ act = "pg_cause_panic"
    /\ callerSuperuser
    /\ outcome = "PANIC"
    /\ pc = "crashed"
    /\ \A p \in ProcPids : procs[p] = "free"

\* C8: pg_cause_fatal called by a superuser ends the calling session only and
\* never returns to its caller; every other process that ran before the call
\* still runs after it.
C8_Step ==
    (pc = "idle" /\ act' = "pg_cause_fatal" /\ superuser) =>
        /\ outcome' = "FATAL"
        /\ ret' = "none"
        /\ pc' = "exited"
        /\ procs'[MyProcPid] = "free"
        /\ \A p \in OtherPids : procs'[p] = procs[p]

C8_Fatal == [][C8_Step]_vars

C8_Witness ==
    /\ act = "pg_cause_fatal"
    /\ callerSuperuser
    /\ outcome = "FATAL"
    /\ pc = "exited"
    /\ \E p \in OtherPids : procs[p] = "backend"

\* C9: when the pid was resolved (postmaster, backend or auxiliary process) and
\* kill() fails, also because the process exited after the lookup, the call
\* reports exactly one WARNING with the signal number, the pid and the errno
\* text, returns false and raises no error.
C9_Step ==
    (pc = "kill" /\ act' = "kill" /\ kill(KillArg(pid), signum) # "") =>
        /\ callerSuperuser
        /\ pid = PostmasterPid \/ proc \in {"backend", "aux"}
        /\ outcome' = "returned"
        /\ ret' = "false"
        /\ errcode' = ""
        /\ diags' = <<[level |-> "WARNING",
                       msg |-> "could not send signal %d to process %d: %m",
                       pid |-> pid, signum |-> signum,
                       errno |-> kill(KillArg(pid), signum)]>>
        /\ diags'[1].errno \in {"EINVAL", "ESRCH", "EPERM"}
        /\ delivered' = {}

C9_DeliveryFailure == [][C9_Step]_vars

\* the backend was found and was gone when kill() ran
C9_Witness ==
    /\ act = "kill"
    /\ proc = "backend"
    /\ signum = 15
    /\ ret = "false"
    /\ Len(diags) = 1
    /\ diags[1].errno = "ESRCH"

\* C10: nothing pins the process between the lookup and kill(): when the
\* process that was found has exited and another process holds its pid by the
\* time kill() runs, the signal goes to the new holder and the call returns
\* true.
C10_Step ==
    (/\ pc = "kill" /\ act' = "kill"
     /\ proc # "NULL" /\ ~resolvedAlive
     /\ procs[pid] \in {"backend", "aux", "other"}
     /\ signum \in 1..64) =>
        /\ ret' = "true"
        /\ outcome' = "returned"
        /\ diags' = <<>>
        /\ delivered' = {[pid |-> pid, signum |-> signum, group |-> haveSetsid,
                          kind |-> procs[pid], resolved |-> FALSE,
                          sinceCall |-> FALSE]}

C10_Race == [][C10_Step]_vars

\* a backend was found, exited, and a process outside the server got the signal
C10_Witness ==
    /\ act = "kill"
    /\ proc = "backend"
    /\ workerAtCall
    /\ ret = "true"
    /\ \E d \in delivered : d.pid = pid /\ d.kind = "other" /\ ~d.resolved

\* C6: each timeline function returns NULL exactly when the timeline id it
\* reads is 0 and that id otherwise, never the number 0, to superusers and
\* others alike, and changes nothing, so calling it again without a change of
\* the stored id gives the same result.
TimelineRead(name, tli) ==
    (pc = "idle" /\ act' = name) =>
        /\ outcome' = "returned"
        /\ errcode' = ""
        /\ (ret' = "null") <=> (tli = 0)
        /\ tli # 0 => (ret' = "uint32" /\ retval' = tli)
        /\ ~(ret' = "uint32" /\ retval' = 0)
        /\ UNCHANGED <<superuser, envVars, procs, pc, rowsLeft, argVars, walVars>>
        /\ diags' = <<>> /\ delivered' = {}

C6_Step ==
    /\ TimelineRead("pg_current_wal_tli", flushTLI)
    /\ TimelineRead("pg_last_wal_replay_tli", replayTLI)
    /\ TimelineRead("pg_last_wal_receive_tli", receiveTLI)

C6_Timeline == [][C6_Step]_vars

C6_Witness ==
    /\ act = "pg_last_wal_receive_tli"
    /\ ~callerSuperuser
    /\ flushTLI = 0 /\ replayTLI = 1
    /\ receiveTLI = 2147483647
    /\ ret = "uint32"
    /\ retval = 2147483647

====
